---------------------------- MODULE Spec2Model ----------------------------
(***************************************************************************)
(* State-machine models of the contract-interaction code of the Web3       *)
(* learning hub: the swap page (src/app/swap/page.tsx), the documented     *)
(* nonce handling, replacement and cancellation of transactions, the       *)
(* validate-before-send pattern, the polling transaction monitor, the      *)
(* retry and timeout helpers, the gas-limit buffer, the optimistic         *)
(* transfer, the ERC-20 allowance and the circuit breaker (src/docs,       *)
(* src/unnamed), the Farcaster context, the NFT page and the signing page. *)
(* Each part has its own specification; the variables of the other parts   *)
(* stay at their initial values.                                           *)
(***************************************************************************)
EXTENDS Integers, Sequences, FiniteSets, TLC

VARIABLES
    \* ---- swap page (src/app/swap/page.tsx) ----
    variant,            \* which SwapPage definition is mounted: 1 (line 65) or 2 (line 425)
    isConnected,        \* useAccount().isConnected
    fromToken,          \* useState fromToken
    toToken,            \* useState toToken
    amount,             \* useState amount (the text of the input)
    slippage,           \* useState slippage (page 1 only)
    quote,              \* useState quote (page 1 only), set by the effect
    status,             \* useState status
    timers,             \* pending setTimeout callbacks of handleSwap, oldest first
    writeContractCalls, \* number of writeContract invocations made so far
    \* ---- nonce handling (src/docs/fundamentals/transactions.md) ----
    calls,              \* per send call: its position, kind, account, nonce and fee
    pool,               \* the calls whose transaction waits in the node's mempool
    included,           \* the calls whose transaction is in a block, in block order
    \* ---- validate before sending (src/docs/patterns/error-handling.md) ----
    tokenBalance,       \* balanceOf(from) in the token contract
    transferReverts,    \* the token contract reverts every transfer (paused, blocked)
    xfers,              \* per transfer attempt: its position, inputs and outcome
    \* ---- TxMonitor (src/docs/fundamentals/transactions.md) ----
    latestBlock,        \* the chain's block number
    receiptBlock,       \* block number of the watched transaction's receipt, 0: none
    nodeUp,             \* whether the node answers requests
    confirmations,      \* useState confirmations
    intervalOn,         \* the setInterval of the effect is active
    poll,               \* the checkConfirmations call in flight
    failedPolls,        \* consecutive checkConfirmations calls that rejected
    watchError,         \* an error state shown by the monitor
    \* ---- retryWithBackoff (src/docs/patterns/error-handling.md) ----
    retry,              \* the retryWithBackoff call: position, loop index, attempts
    \* ---- withTimeout (src/docs/patterns/error-handling.md) ----
    race,               \* the withTimeout call: the request, the timer, the result
    \* ---- gas limit with buffer (transactions.md, smart-contracts.md) ----
    gas,                \* the estimate received and the gas limit computed from it
    \* ---- OptimisticTransfer (src/docs/patterns/error-handling.md) ----
    cache,              \* query data of balanceOf(address) in the query client
    chainBalance,       \* balanceOf(address) on chain
    fetching,           \* a balanceOf fetch is in flight
    writes,             \* per writeContract call: position, amount, onMutate's context
    \* ---- ERC-20 allowance (src/unnamed/part_004) ----
    erc20,              \* allowances[Alice][Bob], balances[Alice], Alice's pending approves
    \* ---- CircuitBreaker (src/docs/patterns/error-handling.md) ----
    breaker,            \* failures, nextAttempt, the clock, the fn() calls in flight
    \* ---- FarcasterProvider (src/contexts/FarcasterContext.tsx) ----
    user,               \* useState user: "null" or the user's name
    isAuthenticated,    \* useState isAuthenticated
    updates,            \* state updates queued by login/logout until the next render
    lastCall,           \* the latest of the login and logout calls
    \* ---- NFT page (src/app/nfts/page.tsx) ----
    tokenURI,           \* data of the tokenURI read, "" while there is none
    metadata,           \* useState metadata: "null" or the URI whose metadata it is
    loadingMetadata,    \* useState loadingMetadata
    fetches,            \* the fetchMetadata calls in flight, by URI, oldest first
    \* ---- SigningPage (src/app/connect/page.tsx) ----
    address,            \* useAccount().address, "undefined" while disconnected
    personalMessage,    \* useState personalMessage
    personalSignature,  \* useState personalSignature: 0 for '', else the signature
    personalVerified,   \* useState personalVerified: "null", "true" or "false"
    typedDataSignature, \* useState typedDataSignature: 0 for '', else the signature
    typedDataVerified,  \* useState typedDataVerified: "null", "true" or "false"
    loading,            \* useState loading
    error,              \* useState error
    handler,            \* the signing handler in flight and its position
    signed,             \* number of signatures the wallet has produced
    verifyResults,      \* per signature: what verifyMessage/verifyTypedData returned
    lastHandlerCall     \* the latest handler call and whether it had an address

swapVars == <<variant, isConnected, fromToken, toToken, amount, slippage,
              quote, status, timers, writeContractCalls>>

nonceVars == <<calls, pool, included>>

valVars == <<tokenBalance, transferReverts, xfers>>

monVars == <<latestBlock, receiptBlock, nodeUp, confirmations, intervalOn, poll,
             failedPolls, watchError>>

helperVars == <<retry, race, gas>>

optVars == <<cache, chainBalance, fetching, writes>>

ercVars == <<erc20>>

breakerVars == <<breaker>>

farcasterVars == <<user, isAuthenticated, updates, lastCall>>

nftVars == <<tokenURI, metadata, loadingMetadata, fetches>>

signVars == <<address, personalMessage, personalSignature, personalVerified,
              typedDataSignature, typedDataVerified, loading, error, handler,
              signed, verifyResults, lastHandlerCall>>

vars == <<swapVars, nonceVars, valVars, monVars, helperVars, optVars,
          ercVars, breakerVars, farcasterVars, nftVars, signVars>>

notSwap == <<nonceVars, valVars, monVars, helperVars, optVars, ercVars,
             breakerVars, farcasterVars, nftVars, signVars>>
notNonce == <<swapVars, valVars, monVars, helperVars, optVars, ercVars,
              breakerVars, farcasterVars, nftVars, signVars>>
notVal == <<swapVars, nonceVars, monVars, helperVars, optVars, ercVars,
            breakerVars, farcasterVars, nftVars, signVars>>
notMon == <<swapVars, nonceVars, valVars, helperVars, optVars, ercVars,
            breakerVars, farcasterVars, nftVars, signVars>>
notRetry == <<swapVars, nonceVars, valVars, monVars, race, gas, optVars,
              ercVars, breakerVars, farcasterVars, nftVars, signVars>>
notRace == <<swapVars, nonceVars, valVars, monVars, retry, gas, optVars,
             ercVars, breakerVars, farcasterVars, nftVars, signVars>>
notGas == <<swapVars, nonceVars, valVars, monVars, retry, race, optVars,
            ercVars, breakerVars, farcasterVars, nftVars, signVars>>
notOpt == <<swapVars, nonceVars, valVars, monVars, helperVars, ercVars,
            breakerVars, farcasterVars, nftVars, signVars>>
notErc == <<swapVars, nonceVars, valVars, monVars, helperVars, optVars,
            breakerVars, farcasterVars, nftVars, signVars>>
notBreaker == <<swapVars, nonceVars, valVars, monVars, helperVars, optVars,
                ercVars, farcasterVars, nftVars, signVars>>
notFarcaster == <<swapVars, nonceVars, valVars, monVars, helperVars, optVars,
                  ercVars, breakerVars, nftVars, signVars>>
notNft == <<swapVars, nonceVars, valVars, monVars, helperVars, optVars,
            ercVars, breakerVars, farcasterVars, signVars>>
notSign == <<swapVars, nonceVars, valVars, monVars, helperVars, optVars,
             ercVars, breakerVars, farcasterVars, nftVars>>

(***************************************************************************)
(* Bounds of the model.                                                    *)
(***************************************************************************)
MaxTimers == 2
MaxCalls == 3
MaxFee == 2
MaxTransfers == 2
MaxAmount == 2
MaxHeight == 4
MaxRetries == 3
MaxTimeout == 2
MaxGas == 60
MaxWrites == 2
MaxBalance == 2
MaxAllowance == 3
MaxInFlight == 2
MaxFailures == 4
MaxTicks == 4
MaxQueuedCalls == 3
MaxFetches == 3
MaxSignatures == 2

Transfers == 1..MaxTransfers

(***************************************************************************)
(* Swap page.                                                              *)
(***************************************************************************)
\* TOKENS keys of page 1 (lines 31-52) and the tokens array of page 2 (line 455).
TokensV1 == {"WETH", "USDC", "DAI", "USDT"}
TokensV2 == {"ETH", "USDC", "DAI", "USDT", "WETH"}
Tokens(v) == IF v = 1 THEN TokensV1 ELSE TokensV2

\* The tokens the user picks in the model: the initial pair and one more.
TokenChoices(v) == Tokens(v) \ (IF v = 1 THEN {"USDT"} ELSE {"USDT", "WETH"})

\* Texts the amount input can hold; "" is the empty input.
AmountInputs == {"", "0", "1"}
SlippageInputs == {"0.5", "1"}

\* parseFloat on the texts above.
ParseFloat(s) == CASE s = "0" -> 0 [] s = "1" -> 1 [] OTHER -> -1

\* !amount || parseFloat(amount) <= 0  (lines 327, 439, 566)
AmountInvalid(s) == s = "" \/ ParseFloat(s) <= 0

NoStatus == [type |-> "null", amount |-> "", from |-> "", to |-> ""]
StatusOf(t) == [type |-> t, amount |-> "", from |-> "", to |-> ""]
NoQuote == [set |-> FALSE, amount |-> "", from |-> "", to |-> ""]

\* The effect of lines 81-98: the quote is recomputed from amount and the pair.
QuoteFor(a, f, t) ==
    IF a # "" /\ ParseFloat(a) > 0
    THEN [set |-> TRUE, amount |-> a, from |-> f, to |-> t]
    ELSE NoQuote

\* The wallet connects or disconnects (useAccount); the page stays mounted.
ToggleConnection ==
    /\ isConnected' = ~isConnected
    /\ UNCHANGED <<variant, fromToken, toToken, amount, slippage, quote,
                   status, timers, writeContractCalls>>
    /\ UNCHANGED notSwap

\* onChange of the amount input (lines 187, 502), with the quote effect of page 1.
SetAmount(a) ==
    /\ isConnected
    /\ amount' = a
    /\ quote' = IF variant = 1 THEN QuoteFor(a, fromToken, toToken) ELSE quote
    /\ UNCHANGED <<variant, isConnected, fromToken, toToken, slippage,
                   status, timers, writeContractCalls>>
    /\ UNCHANGED notSwap

\* onChange of the slippage input (line 296), rendered only while quote is set.
SetSlippage(s) ==
    /\ isConnected
    /\ variant = 1
    /\ quote.set
    /\ slippage' = s
    /\ UNCHANGED <<variant, isConnected, fromToken, toToken, amount, quote,
                   status, timers, writeContractCalls>>
    /\ UNCHANGED notSwap

\* onChange of the from-token select (lines 199-215, 488-497): every token is offered.
SelectFromToken(t) ==
    /\ isConnected
    /\ t \in TokenChoices(variant)
    /\ fromToken' = t
    /\ quote' = IF variant = 1 THEN QuoteFor(amount, t, toToken) ELSE quote
    /\ UNCHANGED <<variant, isConnected, toToken, amount, slippage,
                   status, timers, writeContractCalls>>
    /\ UNCHANGED notSwap

\* onChange of the to-token select (lines 258-274, 536-545): the options are the
\* tokens other than fromToken.
SelectToToken(t) ==
    /\ isConnected
    /\ t \in TokenChoices(variant) \ {fromToken}
    /\ toToken' = t
    /\ quote' = IF variant = 1 THEN QuoteFor(amount, fromToken, t) ELSE quote
    /\ UNCHANGED <<variant, isConnected, fromToken, amount, slippage,
                   status, timers, writeContractCalls>>
    /\ UNCHANGED notSwap

\* onClick of the arrow button (lines 221-226, 512-517).
FlipPair ==
    /\ isConnected
    /\ fromToken' = toToken
    /\ toToken' = fromToken
    /\ quote' = IF variant = 1 THEN QuoteFor(amount, toToken, fromToken) ELSE quote
    /\ UNCHANGED <<variant, isConnected, amount, slippage,
                   status, timers, writeContractCalls>>
    /\ UNCHANGED notSwap

\* A handler that also submits a transaction.
handleSwapClickSubmits ==
    /\ status' = StatusOf("warning")
    /\ writeContractCalls' = writeContractCalls + 1

\* handleSwapClick (lines 114-119): only the status message is set.
handleSwapClick ==
    /\ status' = StatusOf("warning")
    /\ writeContractCalls' = writeContractCalls

\* The swap button of page 1 (lines 325-327), disabled while the amount is invalid.
ClickSwapV1 ==
    /\ isConnected
    /\ variant = 1
    /\ ~AmountInvalid(amount)
    /\ handleSwapClick
    /\ UNCHANGED <<variant, isConnected, fromToken, toToken, amount, slippage,
                   quote, timers>>
    /\ UNCHANGED notSwap

\* handleSwap (lines 438-453): an error status for an invalid amount, otherwise the
\* info status and a timeout whose callback closes over amount, fromToken, toToken.
handleSwap ==
    /\ IF AmountInvalid(amount)
       THEN /\ status' = StatusOf("error")
            /\ timers' = timers
       ELSE /\ status' = StatusOf("info")
            /\ timers' = Append(timers, [type |-> "success", amount |-> amount,
                                         from |-> fromToken, to |-> toToken])
    /\ writeContractCalls' = writeContractCalls

\* The swap button of page 2 (lines 564-566): disabled while isPending, isConfirming
\* (both false as long as writeContract was never called) or the amount is invalid.
ClickSwapV2 ==
    /\ isConnected
    /\ variant = 2
    /\ writeContractCalls = 0
    /\ ~AmountInvalid(amount)
    /\ Len(timers) < MaxTimers
    /\ handleSwap
    /\ UNCHANGED <<variant, isConnected, fromToken, toToken, amount, slippage, quote>>
    /\ UNCHANGED notSwap

\* The setTimeout callback of handleSwap (lines 447-452); equal delays fire in order.
TimerFire ==
    /\ timers # <<>>
    /\ status' = Head(timers)
    /\ timers' = Tail(timers)
    /\ UNCHANGED <<variant, isConnected, fromToken, toToken, amount, slippage,
                   quote, writeContractCalls>>
    /\ UNCHANGED notSwap

NextSwap ==
    \/ ToggleConnection
    \/ \E a \in AmountInputs : SetAmount(a)
    \/ \E s \in SlippageInputs : SetSlippage(s)
    \/ \E t \in TokensV2 : SelectFromToken(t)
    \/ \E t \in TokensV2 : SelectToToken(t)
    \/ FlipPair
    \/ ClickSwapV1
    \/ ClickSwapV2
    \/ TimerFire


(***************************************************************************)
(* Nonce handling, replacement and cancellation                            *)
(* (src/docs/fundamentals/transactions.md).                                *)
(***************************************************************************)
Accounts == {"ALICE", "BOB"}
Calls == 1..MaxCalls
Fees == 1..MaxFee

IdleCall == [pc |-> "idle", kind |-> "none", from |-> "none", nonce |-> 0,
             fee |-> 0, by |-> 0]

\* getTransactionCount with the default block tag: the transactions of the account
\* that are in a block.
TransactionCount(a) ==
    Cardinality({i \in 1..Len(included) : calls[included[i]].from = a})

RECURSIVE NextFree(_, _)
NextFree(a, n) ==
    IF \E p \in pool : calls[p].from = a /\ calls[p].nonce = n
    THEN NextFree(a, n + 1)
    ELSE n

\* getTransactionCount({ address, blockTag: 'pending' }) (lines 560-563): the count
\* including the transactions of the mempool that follow the last included one.
PendingTransactionCount(a) == NextFree(a, TransactionCount(a))

\* The mempool transaction that holds the same account and nonce, if any.
Rivals(a, n) == {p \in pool : calls[p].from = a /\ calls[p].nonce = n}

\* The node receives a signed transaction (sendTransaction, line 290): "nonce too
\* low" (line 439) below the account's count, "transaction underpriced" (line 451)
\* for a nonce already in the mempool unless the fee is higher (lines 571-579), and
\* then the earlier transaction is replaced (line 331).
Broadcast(c, k, a, n, f) ==
    LET tx == [pc |-> "pending", kind |-> k, from |-> a, nonce |-> n,
               fee |-> f, by |-> 0]
    IN  IF n < TransactionCount(a)
        THEN /\ calls' = [calls EXCEPT ![c] = [tx EXCEPT !.pc = "nonceTooLow"]]
             /\ pool' = pool
        ELSE IF \E p \in Rivals(a, n) : f <= calls[p].fee
        THEN /\ calls' = [calls EXCEPT ![c] = [tx EXCEPT !.pc = "underpriced"]]
             /\ pool' = pool
        ELSE /\ calls' = [x \in Calls |->
                            IF x = c THEN tx
                            ELSE IF x \in Rivals(a, n)
                            THEN [calls[x] EXCEPT !.pc = "replaced", !.by = c]
                            ELSE calls[x]]
             /\ pool' = (pool \ Rivals(a, n)) \cup {c}

\* Calls are numbered in the order they start.
IsNextCall(c) ==
    /\ calls[c].pc = "idle"
    /\ \A b \in Calls : b < c => calls[b].pc # "idle"

\* A send with a manually managed nonce, first half (lines 559-563):
\* const nonce = await publicClient.getTransactionCount({ address, blockTag: 'pending' })
GetTransactionCount(c, a, f) ==
    /\ IsNextCall(c)
    /\ calls' = [calls EXCEPT ![c] = [pc |-> "counted", kind |-> "submit",
                                      from |-> a,
                                      nonce |-> PendingTransactionCount(a),
                                      fee |-> f, by |-> 0]]
    /\ UNCHANGED <<pool, included>>
    /\ UNCHANGED notNonce

\* Second half: the transaction is sent with the nonce that was read.
SendTransaction(c) ==
    /\ calls[c].pc = "counted"
    /\ Broadcast(c, "submit", calls[c].from, calls[c].nonce, calls[c].fee)
    /\ UNCHANGED included
    /\ UNCHANGED notNonce

\* "Reemplazar Transacciones Stuck" (lines 566-581): resend with the nonce of the
\* stuck transaction and a higher fee.
ReplaceTransaction(c, p, f) ==
    /\ IsNextCall(c)
    /\ p # c
    /\ calls[p].pc \in {"pending", "included", "dropped"}
    /\ f > calls[p].fee
    /\ Broadcast(c, "replace", calls[p].from, calls[p].nonce, f)
    /\ UNCHANGED included
    /\ UNCHANGED notNonce

\* "Cancelar Transacciones" (lines 583-593): 0 ETH to oneself with the nonce of the
\* transaction to cancel and a fee above the original's.
CancelTransaction(c, p, f) ==
    /\ IsNextCall(c)
    /\ p # c
    /\ calls[p].pc \in {"pending", "included", "dropped"}
    /\ f > calls[p].fee
    /\ Broadcast(c, "cancel", calls[p].from, calls[p].nonce, f)
    /\ UNCHANGED included
    /\ UNCHANGED notNonce

\* A transaction may enter a block once its nonce is the account's next one.
CanIncludeAnyNonce(p) == calls[p].nonce >= TransactionCount(calls[p].from)

\* The nonce is incremental and without gaps; a transaction sent with nonce 5
\* before nonce 4 stays pending (lines 85-89).
CanInclude(p) == calls[p].nonce = TransactionCount(calls[p].from)

\* A validator includes a mempool transaction in a block (lines 299-302).
IncludeInBlock(p) ==
    /\ p \in pool
    /\ CanInclude(p)
    /\ calls' = [calls EXCEPT ![p].pc = "included"]
    /\ pool' = pool \ {p}
    /\ included' = Append(included, p)
    /\ UNCHANGED notNonce

\* The transaction is expelled from the mempool ('dropped', line 330).
DropFromMempool(p) ==
    /\ p \in pool
    /\ calls' = [calls EXCEPT ![p].pc = "dropped"]
    /\ pool' = pool \ {p}
    /\ UNCHANGED included
    /\ UNCHANGED notNonce

NextNonce ==
    \/ \E c \in Calls, a \in Accounts, f \in Fees : GetTransactionCount(c, a, f)
    \/ \E c \in Calls : SendTransaction(c)
    \/ \E c \in Calls, p \in Calls, f \in Fees : ReplaceTransaction(c, p, f)
    \/ \E c \in Calls, p \in Calls, f \in Fees : CancelTransaction(c, p, f)
    \/ \E p \in Calls : IncludeInBlock(p)
    \/ \E p \in Calls : DropFromMempool(p)

(***************************************************************************)
(* Validate before sending (src/docs/patterns/error-handling.md, lines     *)
(* 533-581).                                                               *)
(***************************************************************************)
AddressInputs == {"0xB0B", "bob"}

\* A transfer attempt that has not started.
IdleTransfer == [pc |-> "idle", to |-> "", amount |-> 0, failed |-> "none",
                 error |-> "none", sent |-> FALSE]

\* isAddress(to): "bob" is not an address.
IsAddress(a) == a = "0xB0B"

\* simulateContract of transfer(to, amount) from the account: the call reverts when
\* the contract rejects transfers or the balance does not cover the amount.
SimulationFails(amt) == transferReverts \/ tokenBalance < amt

\* The state of the token contract changes between any two steps.
SetBalance(b) ==
    /\ tokenBalance' = b
    /\ UNCHANGED <<transferReverts, xfers>>
    /\ UNCHANGED notVal

SetTransferReverts(r) ==
    /\ transferReverts' = r
    /\ UNCHANGED <<tokenBalance, xfers>>
    /\ UNCHANGED notVal

\* validateTransfer is called (line 573); the address check of lines 540-542.
ValidateAddress(t, to, amt) ==
    /\ xfers[t].pc = "idle"
    /\ xfers' = [xfers EXCEPT ![t] =
            IF ~IsAddress(to)
            THEN [pc |-> "returned", to |-> to, amount |-> amt,
                  failed |-> "address", error |-> "invalid address", sent |-> FALSE]
            ELSE [pc |-> "readBalance", to |-> to, amount |-> amt,
                  failed |-> "none", error |-> "none", sent |-> FALSE]]
    /\ UNCHANGED <<tokenBalance, transferReverts>>
    /\ UNCHANGED notVal

\* await readContract balanceOf (lines 545-554).  A read the node does not answer
\* rejects, and the rejection leaves validateTransfer and the caller's await.
ReadBalance(t, answered) ==
    /\ xfers[t].pc = "readBalance"
    /\ xfers' = [xfers EXCEPT ![t] =
            IF ~answered
            THEN [xfers[t] EXCEPT !.pc = "threw", !.failed = "node"]
            ELSE IF tokenBalance < xfers[t].amount
            THEN [xfers[t] EXCEPT !.pc = "returned", !.failed = "balance",
                                  !.error = "insufficient balance"]
            ELSE [xfers[t] EXCEPT !.pc = "simulate"]]
    /\ UNCHANGED <<tokenBalance, transferReverts>>
    /\ UNCHANGED notVal

\* A catch block that logs and goes on to return null.
SimulationResultSwallowed(amt) == "null"

\* try { await simulateContract } catch { return 'La transaccion fallaria' }, then
\* return null (lines 556-570).
SimulationResult(amt) == IF SimulationFails(amt) THEN "would fail" ELSE "null"

Simulate(t) ==
    /\ xfers[t].pc = "simulate"
    /\ xfers' = [xfers EXCEPT ![t] =
            [xfers[t] EXCEPT !.pc = "returned",
                             !.failed = IF SimulationFails(xfers[t].amount)
                                        THEN "simulation" ELSE "none",
                             !.error = SimulationResult(xfers[t].amount)]]
    /\ UNCHANGED <<tokenBalance, transferReverts>>
    /\ UNCHANGED notVal

\* if (error) (line 574): null is the only falsy result.
ErrorReturned(e) == e # "null"

\* The caller (lines 573-580): toast and return on an error, writeContract otherwise.
ProceedOrAbort(t) ==
    /\ xfers[t].pc = "returned"
    /\ xfers' = [xfers EXCEPT ![t] =
            IF ErrorReturned(xfers[t].error)
            THEN [xfers[t] EXCEPT !.pc = "aborted"]
            ELSE [xfers[t] EXCEPT !.pc = "sent", !.sent = TRUE]]
    /\ UNCHANGED <<tokenBalance, transferReverts>>
    /\ UNCHANGED notVal

NextValidate ==
    \/ \E b \in 0..MaxAmount : SetBalance(b)
    \/ \E r \in BOOLEAN : SetTransferReverts(r)
    \/ \E t \in Transfers, to \in AddressInputs, amt \in 1..MaxAmount :
            ValidateAddress(t, to, amt)
    \/ \E t \in Transfers, answered \in BOOLEAN : ReadBalance(t, answered)
    \/ \E t \in Transfers : Simulate(t)
    \/ \E t \in Transfers : ProceedOrAbort(t)

(***************************************************************************)
(* TxMonitor (src/docs/fundamentals/transactions.md, lines 691-717).       *)
(***************************************************************************)
\* No checkConfirmations call is in flight.
IdlePoll == [pc |-> "idle", receipt |-> 0]

\* A block is produced; the watched transaction may be included in it.
ProduceBlock(includes) ==
    /\ latestBlock < MaxHeight
    /\ latestBlock' = latestBlock + 1
    /\ receiptBlock' = IF includes /\ receiptBlock = 0
                       THEN latestBlock + 1 ELSE receiptBlock
    /\ UNCHANGED <<nodeUp, confirmations, intervalOn, poll, failedPolls, watchError>>
    /\ UNCHANGED notMon

\* The node stops or resumes answering (RPC timeout, error-handling.md lines 31-32).
SetNodeUp(up) ==
    /\ nodeUp' = up
    /\ UNCHANGED <<latestBlock, receiptBlock, confirmations, intervalOn, poll,
                   failedPolls, watchError>>
    /\ UNCHANGED notMon

\* The effect runs (lines 699-712): setInterval(checkConfirmations, 1000).
Mount ==
    /\ ~intervalOn
    /\ intervalOn' = TRUE
    /\ UNCHANGED <<latestBlock, receiptBlock, nodeUp, confirmations, poll,
                   failedPolls, watchError>>
    /\ UNCHANGED notMon

\* The cleanup of the effect (line 713): clearInterval.
Unmount ==
    /\ intervalOn
    /\ intervalOn' = FALSE
    /\ UNCHANGED <<latestBlock, receiptBlock, nodeUp, confirmations, poll,
                   failedPolls, watchError>>
    /\ UNCHANGED notMon

\* The interval fires and checkConfirmations starts (line 712); the delay is the
\* same 1000 ms after a failed call as after a successful one.  The model keeps one
\* call in flight.
Tick ==
    /\ intervalOn
    /\ poll.pc = "idle"
    /\ poll' = [pc |-> "receipt", receipt |-> 0]
    /\ UNCHANGED <<latestBlock, receiptBlock, nodeUp, confirmations, intervalOn,
                   failedPolls, watchError>>
    /\ UNCHANGED notMon

\* await getTransactionReceipt (line 703).  checkConfirmations has no catch: a
\* rejection ends the call, and setInterval drops the rejected promise.
ReceiptReturns ==
    /\ poll.pc = "receipt"
    /\ IF nodeUp
       THEN /\ poll' = [pc |-> "block", receipt |-> receiptBlock]
            /\ failedPolls' = failedPolls
       ELSE /\ poll' = IdlePoll
            /\ failedPolls' = 1
    /\ UNCHANGED <<latestBlock, receiptBlock, nodeUp, confirmations, intervalOn,
                   watchError>>
    /\ UNCHANGED notMon

\* await getBlockNumber, then setConfirmations when there is a receipt
\* (lines 704-709).
BlockNumberReturns ==
    /\ poll.pc = "block"
    /\ IF nodeUp
       THEN /\ confirmations' = IF poll.receipt # 0
                                THEN latestBlock - poll.receipt
                                ELSE confirmations
            /\ failedPolls' = 0
       ELSE /\ confirmations' = confirmations
            /\ failedPolls' = 1
    /\ poll' = IdlePoll
    /\ UNCHANGED <<latestBlock, receiptBlock, nodeUp, intervalOn, watchError>>
    /\ UNCHANGED notMon

NextMonitor ==
    \/ \E i \in BOOLEAN : ProduceBlock(i)
    \/ \E u \in BOOLEAN : SetNodeUp(u)
    \/ Mount
    \/ Unmount
    \/ Tick
    \/ ReceiptReturns
    \/ BlockNumberReturns

(***************************************************************************)
(* retryWithBackoff (src/docs/patterns/error-handling.md, lines 116-148).  *)
(***************************************************************************)
BaseDelay == 1000

\* What fn() can reject with: the user's rejection, a lack of funds, a revert of
\* the simulated or executed call, an input that cannot be encoded, and a
\* network failure (the error classes of lines 18-35 and 59-93).
Errors == {"UserRejectedRequestError", "InsufficientFundsError",
           "ContractFunctionRevertedError", "InvalidInputError", "TimeoutError"}

\* The failures that repeat as long as the call and the state are unchanged.
DeterministicErrors == {"ContractFunctionRevertedError", "InvalidInputError"}

\* err instanceof BaseError (line 130): every error above is a viem error.
IsBaseError(e) == e \in Errors

\* err.message.includes('insufficient funds') (line 135)
MessageIncludesInsufficientFunds(e) == e = "InsufficientFundsError"

\* The two "No retry" branches of the catch block (lines 130-138).
ThrowsWithoutRetry(e) ==
    /\ IsBaseError(e)
    /\ \/ e = "UserRejectedRequestError"
       \/ MessageIncludesInsufficientFunds(e)

\* A loop that runs one round too many.
LoopConditionInclusive(i, m) == i <= m

\* i < maxRetries, the condition of the for loop (line 123).
LoopCondition(i, m) == i < m

\* baseDelay * Math.pow(2, i) (line 141)
BackoffDelay(i) == BaseDelay * 2^i

IdleRetry == [pc |-> "idle", maxRetries |-> 0, i |-> 0, started |-> 0,
              attempts |-> <<>>, delay |-> 0, lastError |-> "undefined"]

\* The caller calls retryWithBackoff(fn, maxRetries): the loop starts with i = 0
\* and makes the first fn() call when 0 < maxRetries; with maxRetries = 0 the
\* loop body never runs and line 147 throws the unset lastError.
RetryWithBackoff(m) ==
    /\ retry.pc \in {"idle", "returned", "thrown"}
    /\ retry' = [IdleRetry EXCEPT
                    !.pc = IF LoopCondition(0, m) THEN "calling" ELSE "thrown",
                    !.maxRetries = m,
                    !.started = IF LoopCondition(0, m) THEN 1 ELSE 0]
    /\ UNCHANGED notRetry

\* return await fn() with fn() fulfilled (line 125).
FnResolves ==
    /\ retry.pc = "calling"
    /\ retry' = [retry EXCEPT !.pc = "returned",
                              !.attempts = Append(retry.attempts, "ok")]
    /\ UNCHANGED notRetry

\* fn() rejected with e: the catch block (lines 126-144) rethrows the two user
\* errors and otherwise starts the sleep of baseDelay * 2^i.
FnRejects(e) ==
    /\ retry.pc = "calling"
    /\ retry' = [retry EXCEPT
                    !.pc = IF ThrowsWithoutRetry(e) THEN "thrown" ELSE "sleeping",
                    !.attempts = Append(retry.attempts, e),
                    !.lastError = e,
                    !.delay = IF ThrowsWithoutRetry(e)
                              THEN retry.delay
                              ELSE BackoffDelay(retry.i)]
    /\ UNCHANGED notRetry

\* The sleep ends (line 143): i++ and, while i < maxRetries, the next fn() call;
\* after the last round line 147 throws lastError.
DelayElapses ==
    /\ retry.pc = "sleeping"
    /\ retry' = [retry EXCEPT
                    !.i = retry.i + 1,
                    !.pc = IF LoopCondition(retry.i + 1, retry.maxRetries)
                           THEN "calling" ELSE "thrown",
                    !.started = IF LoopCondition(retry.i + 1, retry.maxRetries)
                                THEN retry.started + 1 ELSE retry.started]
    /\ UNCHANGED notRetry

NextRetry ==
    \/ \E m \in 0..MaxRetries : RetryWithBackoff(m)
    \/ FnResolves
    \/ \E e \in Errors : FnRejects(e)
    \/ DelayElapses

(***************************************************************************)
(* withTimeout (src/docs/patterns/error-handling.md, lines 586-595) around *)
(* a request to the node.                                                  *)
(***************************************************************************)
\* The requests a caller wraps: readContract, multicall, estimateGas,
\* sendTransaction.
Operations == {"read", "batchRead", "estimate", "submit"}

\* new Error('Operation timed out') (line 591)
TimedOut == "Operation timed out"

\* What the node's answer settles the request with: the value (for a submit, the
\* hash of the transaction it accepted) or an error.
NodeOutcomes == {"value", "ContractFunctionRevertedError", "HttpRequestError"}

IdleRace == [pc |-> "idle", op |-> "none", timeoutMs |-> 0, elapsed |-> 0,
             promise |-> "pending", timer |-> "none", result |-> "none",
             first |-> "none"]

\* Promise.race picks the input that settles last.
LastSettledWins(result, outcome) == outcome

\* Promise.race (line 594) settles with the first of its inputs to settle and
\* ignores the ones that settle later.
PromiseRace(result, outcome) == IF result = "none" THEN outcome ELSE result

\* withTimeout(promise, timeoutMs): the request is already under way, the timer
\* is armed (lines 590-592) and the race is returned (line 594).
WithTimeout(op, ms) ==
    /\ race.pc = "idle"
    /\ race' = [IdleRace EXCEPT !.pc = "racing", !.op = op, !.timeoutMs = ms,
                                !.timer = "armed"]
    /\ UNCHANGED notRace

\* A millisecond passes; the timer does not let its deadline go by.
TimePasses ==
    /\ race.pc = "racing"
    /\ race.timer = "armed"
    /\ race.elapsed < race.timeoutMs
    /\ race' = [race EXCEPT !.elapsed = race.elapsed + 1]
    /\ UNCHANGED notRace

\* The node answers the request, before or after the deadline: the wrapped
\* promise settles, and the race with it unless it has settled already.
NodeResponds(o) ==
    /\ race.pc = "racing"
    /\ race.promise = "pending"
    /\ race' = [race EXCEPT
                   !.promise = o,
                   !.result = PromiseRace(race.result, o),
                   !.first = IF race.first = "none" THEN "promise" ELSE race.first]
    /\ UNCHANGED notRace

\* The setTimeout callback (line 591) rejects the timeout promise.  Nothing
\* cancels the request: the wrapped promise is left as it is.
TimerFires ==
    /\ race.pc = "racing"
    /\ race.timer = "armed"
    /\ race.elapsed = race.timeoutMs
    /\ race' = [race EXCEPT
                   !.timer = "fired",
                   !.result = PromiseRace(race.result, TimedOut),
                   !.first = IF race.first = "none" THEN "timer" ELSE race.first]
    /\ UNCHANGED notRace

NextTimeout ==
    \/ \E op \in Operations, ms \in 0..MaxTimeout : WithTimeout(op, ms)
    \/ TimePasses
    \/ \E o \in NodeOutcomes : NodeResponds(o)
    \/ TimerFires

(***************************************************************************)
(* Gas limit with a 20% buffer: GasEstimator (transactions.md, lines       *)
(* 374-386) and the manual estimation (smart-contracts.md, lines 594-607). *)
(* The quantities are bigint.                                              *)
(***************************************************************************)
GasEstimates == 0..MaxGas

IdleGas == [snippet |-> "none", gasEstimate |-> 0, hasLimit |-> FALSE,
            gasLimit |-> 0]

\* The buffer applied with the division first.
WithBufferDivideFirst(e) == (e \div 100) * 120

\* gasEstimate * 120n / 100n: bigint multiplication, then truncating division.
WithBuffer(e) == (e * 120) \div 100

\* GasEstimator renders with the estimate of useEstimateGas: gasLimit is
\* undefined while the estimate is falsy (undefined or 0n) (lines 381-383).
GasEstimator(e) ==
    /\ gas' = [snippet |-> "GasEstimator",
               gasEstimate |-> e,
               hasLimit |-> e # 0,
               gasLimit |-> IF e # 0 THEN WithBuffer(e) ELSE 0]
    /\ UNCHANGED notGas

\* estimateContractGas returns e and the buffer is added (lines 595-606).
EstimateContractGas(e) ==
    /\ gas' = [snippet |-> "manual",
               gasEstimate |-> e,
               hasLimit |-> TRUE,
               gasLimit |-> WithBuffer(e)]
    /\ UNCHANGED notGas

NextGas ==
    \/ \E e \in GasEstimates : GasEstimator(e)
    \/ \E e \in GasEstimates : EstimateContractGas(e)

(***************************************************************************)
(* OptimisticTransfer (src/docs/patterns/error-handling.md, lines          *)
(* 968-1036): the mutation callbacks of useWriteContract on the cached     *)
(* balance.                                                                *)
(***************************************************************************)
Writes == 1..MaxWrites

\* Query data: a bigint, or undefined while nothing was fetched.
Undefined == [has |-> FALSE, val |-> 0]
Value(v) == [has |-> TRUE, val |-> v]

\* !x for bigint | undefined: undefined and 0n are falsy.
Falsy(x) == ~x.has \/ x.val = 0

IdleWrite == [pc |-> "idle", amount |-> 0, previousBalance |-> Undefined]

\* The updater of onMutate (lines 996-999).
SubtractAmount(old, amt) == IF Falsy(old) THEN old ELSE Value(old.val - amt)

\* The body of onError (lines 1008-1013).
Rollback(data, previousBalance) ==
    IF Falsy(previousBalance) THEN data ELSE previousBalance

\* The balance query fetches on mount or after an invalidation and its answer
\* becomes the query data.
FetchReturns ==
    /\ fetching
    /\ cache' = Value(chainBalance)
    /\ fetching' = FALSE
    /\ UNCHANGED <<chainBalance, writes>>
    /\ UNCHANGED notOpt

\* writeContract(transfer(recipient, amt)) (lines 1025-1032): onMutate starts
\* and awaits cancelQueries (lines 981-985).
WriteContract(w, amt) ==
    /\ writes[w].pc = "idle"
    /\ \A v \in Writes : v < w => writes[v].pc # "idle"
    /\ writes' = [writes EXCEPT ![w] = [IdleWrite EXCEPT !.pc = "cancelling",
                                                         !.amount = amt]]
    /\ UNCHANGED <<cache, chainBalance, fetching>>
    /\ UNCHANGED notOpt

\* The rest of onMutate (lines 987-1003), which runs without interruption once
\* cancelQueries has ended the fetch in flight: snapshot, optimistic update,
\* context.
OnMutate(w) ==
    /\ writes[w].pc = "cancelling"
    /\ fetching' = FALSE
    /\ writes' = [writes EXCEPT ![w].pc = "pending",
                                ![w].previousBalance = cache]
    /\ cache' = SubtractAmount(cache, writes[w].amount)
    /\ UNCHANGED chainBalance
    /\ UNCHANGED notOpt

\* The write fails (rejected by the user, reverted): onError (lines 1006-1014).
OnError(w) ==
    /\ writes[w].pc = "pending"
    /\ cache' = Rollback(cache, writes[w].previousBalance)
    /\ writes' = [writes EXCEPT ![w].pc = "failed"]
    /\ UNCHANGED <<chainBalance, fetching>>
    /\ UNCHANGED notOpt

\* The write succeeds: the transfer took the amount from the chain balance and
\* onSuccess (lines 1016-1021) invalidates the query, which fetches again.
OnSuccess(w) ==
    /\ writes[w].pc = "pending"
    /\ chainBalance >= writes[w].amount
    /\ chainBalance' = chainBalance - writes[w].amount
    /\ fetching' = TRUE
    /\ writes' = [writes EXCEPT ![w].pc = "succeeded"]
    /\ UNCHANGED cache
    /\ UNCHANGED notOpt

NextOptimistic ==
    \/ FetchReturns
    \/ \E w \in Writes, amt \in 1..MaxBalance : WriteContract(w, amt)
    \/ \E w \in Writes : OnMutate(w)
    \/ \E w \in Writes : OnError(w)
    \/ \E w \in Writes : OnSuccess(w)

(***************************************************************************)
(* ERC-20 allowance (src/unnamed/part_004): approve (lines 262-265),       *)
(* transferFrom (lines 303-316) and the change of an allowance by          *)
(* approve(Bob, 0) followed by approve(Bob, B) (lines 913-917).  The       *)
(* amounts are uint256; no sum in the model comes near 2^256.              *)
(***************************************************************************)
Allowances == 1..MaxAllowance

\* Alice holds enough tokens for every transfer of the model.
AliceBalance == 2 * MaxAllowance

IdleErc20 == [old |-> 0, new |-> 0, pending |-> <<>>, allowance |-> 0,
              balance |-> 0, spent |-> 0]

\* Alice, who approved a to Bob earlier, changes the allowance to b: both
\* transactions of lines 915-916 are sent and wait in the mempool.
Erc20Start(a, b) ==
    [old |-> a, new |-> b, pending |-> <<0, b>>, allowance |-> a,
     balance |-> AliceBalance, spent |-> 0]

\* The next approve of Alice is included: allowances[msg.sender][spender] =
\* amount (line 263).
Approve ==
    /\ erc20.pending # <<>>
    /\ erc20' = [erc20 EXCEPT !.allowance = Head(erc20.pending),
                              !.pending = Tail(erc20.pending)]
    /\ UNCHANGED notErc

\* Bob's transferFrom(Alice, Bob, amt) is included, before, between or after
\* Alice's transactions (lines 303-316); it reverts unless the allowance and the
\* balance cover the amount.
TransferFrom(amt) ==
    /\ erc20.allowance >= amt
    /\ erc20.balance >= amt
    /\ erc20' = [erc20 EXCEPT !.allowance = erc20.allowance - amt,
                              !.balance = erc20.balance - amt,
                              !.spent = erc20.spent + amt]
    /\ UNCHANGED notErc

NextErc20 ==
    \/ Approve
    \/ \E amt \in Allowances : TransferFrom(amt)

(***************************************************************************)
(* CircuitBreaker (src/docs/patterns/error-handling.md, lines 613-648).    *)
(***************************************************************************)
CircuitThreshold == 3
CircuitTimeout == 60000

\* The clock of the model advances in steps of half the timeout.
TimeStep == CircuitTimeout \div 2

\* new CircuitBreaker() (lines 614-617).  inFlight counts the fn() calls that
\* have not settled; last is the latest step; streak and trippedAt record the
\* run of consecutive failed executions and the time it last reached three.
NewBreaker == [failures |-> 0, nextAttempt |-> 0, now |-> 0, inFlight |-> 0,
               last |-> "new", streak |-> 0, tripped |-> FALSE, trippedAt |-> 0]

\* isOpen() (lines 634-636)
isOpen ==
    breaker.failures >= CircuitThreshold /\ breaker.now < breaker.nextAttempt

\* execute(fn) up to the await (lines 619-625): the open breaker throws, the
\* closed one calls fn().
Execute ==
    /\ IF isOpen
       THEN breaker' = [breaker EXCEPT !.last = "rejected"]
       ELSE /\ breaker.inFlight < MaxInFlight
            /\ breaker' = [breaker EXCEPT !.inFlight = breaker.inFlight + 1,
                                          !.last = "started"]
    /\ UNCHANGED notBreaker

\* fn() fulfilled: onSuccess() (lines 626, 638-640).
ExecuteSucceeds ==
    /\ breaker.inFlight > 0
    /\ breaker' = [breaker EXCEPT !.failures = 0,
                                  !.inFlight = breaker.inFlight - 1,
                                  !.last = "success",
                                  !.streak = 0]
    /\ UNCHANGED notBreaker

\* fn() rejected: onFailure() (lines 629, 642-647).
ExecuteFails ==
    /\ breaker.inFlight > 0
    /\ breaker.failures < MaxFailures
    /\ breaker' = [breaker EXCEPT
                      !.failures = breaker.failures + 1,
                      !.nextAttempt = IF breaker.failures + 1 >= CircuitThreshold
                                      THEN breaker.now + CircuitTimeout
                                      ELSE breaker.nextAttempt,
                      !.inFlight = breaker.inFlight - 1,
                      !.last = "failure",
                      !.streak = breaker.streak + 1,
                      !.tripped = breaker.tripped \/ breaker.streak + 1 >= 3,
                      !.trippedAt = IF breaker.streak + 1 >= 3
                                    THEN breaker.now ELSE breaker.trippedAt]
    /\ UNCHANGED notBreaker

\* Date.now() advances.
ClockAdvances ==
    /\ breaker.now < MaxTicks * TimeStep
    /\ breaker' = [breaker EXCEPT !.now = breaker.now + TimeStep,
                                  !.last = "clock"]
    /\ UNCHANGED notBreaker

NextBreaker ==
    \/ Execute
    \/ ExecuteSucceeds
    \/ ExecuteFails
    \/ ClockAdvances

(***************************************************************************)
(* FarcasterProvider (src/contexts/FarcasterContext.tsx, lines 23-61).     *)
(* The setters called by login and logout queue their updates; React       *)
(* applies the queued updates in order, all in one render.                 *)
(***************************************************************************)
\* The user data passed to login: the mock user of FarcasterLoginButton
\* (lines 77-83) and those of other callers.
FarcasterUsers == {"demo_user", "alice", "bob"}

\* login (lines 27-30)
LoginUpdates(userData) ==
    << [set |-> "user", value |-> userData],
       [set |-> "isAuthenticated", value |-> "true"] >>

\* A logout that clears only the user.
LogoutKeepsFlag == << [set |-> "user", value |-> "null"] >>

\* logout (lines 32-35)
LogoutUpdates ==
    << [set |-> "user", value |-> "null"],
       [set |-> "isAuthenticated", value |-> "false"] >>

\* The value of one piece of state after the queued updates: the last value set,
\* or the current one.
RECURSIVE Reduce(_, _, _)
Reduce(name, current, queue) ==
    IF queue = <<>> THEN current
    ELSE Reduce(name,
                IF Head(queue).set = name THEN Head(queue).value ELSE current,
                Tail(queue))

\* A consumer of the context calls login(userData); FarcasterLoginButton does
\* so with the mock user (line 84).
Login(userData) ==
    /\ Len(updates) < 2 * MaxQueuedCalls
    /\ updates' = updates \o LoginUpdates(userData)
    /\ lastCall' = "login"
    /\ UNCHANGED <<user, isAuthenticated>>
    /\ UNCHANGED notFarcaster

\* A consumer of the context calls logout(); FarcasterLoginButton does so from
\* the button it shows while isAuthenticated && user (lines 87, 104).
Logout ==
    /\ Len(updates) < 2 * MaxQueuedCalls
    /\ updates' = updates \o LogoutUpdates
    /\ lastCall' = "logout"
    /\ UNCHANGED <<user, isAuthenticated>>
    /\ UNCHANGED notFarcaster

\* The provider renders again with the queued updates applied (lines 24-25).
RenderProvider ==
    /\ updates # <<>>
    /\ user' = Reduce("user", user, updates)
    /\ isAuthenticated' =
          (Reduce("isAuthenticated",
                  IF isAuthenticated THEN "true" ELSE "false", updates) = "true")
    /\ updates' = <<>>
    /\ UNCHANGED lastCall
    /\ UNCHANGED notFarcaster

NextFarcaster ==
    \/ \E u \in FarcasterUsers : Login(u)
    \/ Logout
    \/ RenderProvider

(***************************************************************************)
(* NFT page (src/app/nfts/page.tsx): the effect that fetches the metadata  *)
(* of the token whenever tokenURI changes (lines 119-161).                 *)
(***************************************************************************)
\* The values of tokenURI: none, and the URIs of two tokens.
TokenURIs == {"", "ipfs://a", "ipfs://b"}

\* The sequence without its i-th element.
RemoveAt(seq, i) == SubSeq(seq, 1, i - 1) \o SubSeq(seq, i + 1, Len(seq))

\* The tokenURI read returns another value (the user typed another token id or
\* chose another contract): the effect runs (lines 120-126, 160); without a URI
\* it clears the metadata, otherwise fetchMetadata starts.
TokenURIChanges(u) ==
    /\ u # tokenURI
    /\ tokenURI' = u
    /\ IF u = ""
       THEN /\ metadata' = "null"
            /\ UNCHANGED <<loadingMetadata, fetches>>
       ELSE /\ Len(fetches) < MaxFetches
            /\ loadingMetadata' = TRUE
            /\ fetches' = Append(fetches, u)
            /\ UNCHANGED metadata
    /\ UNCHANGED notNft

\* A fetch in flight answers with the metadata (lines 139-151, 155-157).
MetadataArrives(i) ==
    /\ i \in 1..Len(fetches)
    /\ metadata' = fetches[i]
    /\ loadingMetadata' = FALSE
    /\ fetches' = RemoveAt(fetches, i)
    /\ UNCHANGED tokenURI
    /\ UNCHANGED notNft

\* A fetch in flight fails (lines 140, 152-157).
MetadataFails(i) ==
    /\ i \in 1..Len(fetches)
    /\ metadata' = "null"
    /\ loadingMetadata' = FALSE
    /\ fetches' = RemoveAt(fetches, i)
    /\ UNCHANGED tokenURI
    /\ UNCHANGED notNft

NextNft ==
    \/ \E u \in TokenURIs : TokenURIChanges(u)
    \/ \E i \in 1..MaxFetches : MetadataArrives(i)
    \/ \E i \in 1..MaxFetches : MetadataFails(i)

(***************************************************************************)
(* SigningPage (src/app/connect/page.tsx, lines 125-300 and the buttons    *)
(* and banners of its render).                                             *)
(***************************************************************************)
\* The signatures the wallet produces, numbered in the order it signs.
Signatures == 1..MaxSignatures

Handlers == {"handlePersonalSign", "handleTypedDataSign", "handleSIWE"}

IdleHandler == [name |-> "none", pc |-> "idle", signature |-> 0]

pageVars == <<personalMessage, personalSignature, personalVerified,
              typedDataSignature, typedDataVerified, loading, error, handler>>

\* setLoading(false) placed after the try block: a rejection skips it.
LoadingAfterTryOnly(outcome) == outcome = "rejected"

\* finally { setLoading(false) } (lines 179-181, 254-256, 297-299): whatever the
\* outcome of the try block.
LoadingAfter(outcome) == FALSE

\* The wallet connects or disconnects (useAccount).
SetAddress(a) ==
    /\ a # address
    /\ address' = a
    /\ UNCHANGED <<pageVars, signed, verifyResults, lastHandlerCall>>
    /\ UNCHANGED notSign

\* onChange of the message textarea (line 371).
SetPersonalMessage(m) ==
    /\ address # "undefined"
    /\ m # personalMessage
    /\ personalMessage' = m
    /\ UNCHANGED <<address, personalSignature, personalVerified,
                   typedDataSignature, typedDataVerified, loading, error,
                   handler, signed, verifyResults, lastHandlerCall>>
    /\ UNCHANGED notSign

\* A handler is called (lines 153-159, 195-200, 267-271): without an address it
\* returns at once; otherwise it sets loading, clears the error and, for the
\* two handlers that verify, the verification result, and asks the wallet to
\* sign.  The buttons are disabled while loading, the first one also while the
\* message is empty (lines 387, 490, 576).
CallHandler(h) ==
    /\ ~loading
    /\ handler.pc = "idle"
    /\ h = "handlePersonalSign" => personalMessage # ""
    /\ lastHandlerCall' = [name |-> h, hadAddress |-> address # "undefined"]
    /\ IF address = "undefined"
       THEN UNCHANGED pageVars
       ELSE /\ loading' = TRUE
            /\ error' = ""
            /\ personalVerified' = IF h = "handlePersonalSign"
                                   THEN "null" ELSE personalVerified
            /\ typedDataVerified' = IF h = "handleTypedDataSign"
                                    THEN "null" ELSE typedDataVerified
            /\ handler' = [name |-> h, pc |-> "signing", signature |-> 0]
            /\ UNCHANGED <<personalMessage, personalSignature, typedDataSignature>>
    /\ UNCHANGED <<address, signed, verifyResults>>
    /\ UNCHANGED notSign

\* The wallet signs (lines 162-166, 231-238, 289-294): the signature is stored
\* and the verification starts; handleSIWE shows its alert and ends.
WalletSigns ==
    /\ handler.pc = "signing"
    /\ signed < MaxSignatures
    /\ signed' = signed + 1
    /\ personalSignature' = IF handler.name = "handlePersonalSign"
                            THEN signed + 1 ELSE personalSignature
    /\ typedDataSignature' = IF handler.name = "handleTypedDataSign"
                             THEN signed + 1 ELSE typedDataSignature
    /\ IF handler.name = "handleSIWE"
       THEN /\ handler' = IdleHandler
            /\ loading' = LoadingAfter("signed")
       ELSE /\ handler' = [handler EXCEPT !.pc = "verifying",
                                          !.signature = signed + 1]
            /\ loading' = loading
    /\ UNCHANGED <<address, personalMessage, personalVerified, typedDataVerified,
                   error, verifyResults, lastHandlerCall>>
    /\ UNCHANGED notSign

\* The wallet rejects or fails: catch and finally (lines 176-181, 251-256,
\* 295-299).
WalletRejects ==
    /\ handler.pc = "signing"
    /\ error' = "User rejected the request."
    /\ loading' = LoadingAfter("rejected")
    /\ handler' = IdleHandler
    /\ UNCHANGED <<address, personalMessage, personalSignature, personalVerified,
                   typedDataSignature, typedDataVerified, signed, verifyResults,
                   lastHandlerCall>>
    /\ UNCHANGED notSign

\* verifyMessage / verifyTypedData returns isValid (lines 169-175, 241-250).
VerifyReturns(isValid) ==
    /\ handler.pc = "verifying"
    /\ verifyResults' = [verifyResults EXCEPT ![handler.signature] = isValid]
    /\ personalVerified' = IF handler.name = "handlePersonalSign"
                           THEN isValid ELSE personalVerified
    /\ typedDataVerified' = IF handler.name = "handleTypedDataSign"
                            THEN isValid ELSE typedDataVerified
    /\ loading' = LoadingAfter("verified")
    /\ handler' = IdleHandler
    /\ UNCHANGED <<address, personalMessage, personalSignature,
                   typedDataSignature, error, signed, lastHandlerCall>>
    /\ UNCHANGED notSign

\* verifyMessage / verifyTypedData throws: catch and finally.
VerifyThrows ==
    /\ handler.pc = "verifying"
    /\ verifyResults' = [verifyResults EXCEPT ![handler.signature] = "threw"]
    /\ error' = "Error al firmar mensaje"
    /\ loading' = LoadingAfter("threw")
    /\ handler' = IdleHandler
    /\ UNCHANGED <<address, personalMessage, personalSignature, personalVerified,
                   typedDataSignature, typedDataVerified, signed, lastHandlerCall>>
    /\ UNCHANGED notSign

\* The two banners under the personal signature (lines 402, 416-423).
ShowsVerified == personalSignature # 0 /\ personalVerified = "true"
ShowsVerificationFailed == personalSignature # 0 /\ personalVerified # "true"

NextSigning ==
    \/ \E a \in {"undefined", "0xA11CE"} : SetAddress(a)
    \/ \E m \in {"", "Bienvenido"} : SetPersonalMessage(m)
    \/ \E h \in Handlers : CallHandler(h)
    \/ WalletSigns
    \/ WalletRejects
    \/ \E isValid \in {"true", "false"} : VerifyReturns(isValid)
    \/ VerifyThrows

(***************************************************************************)
(* Specifications.  Each one starts every part in its initial state and    *)
(* takes the steps of one part.                                            *)
(***************************************************************************)
InitSwap ==
    /\ variant \in {1, 2}
    /\ isConnected \in BOOLEAN
    /\ fromToken = IF variant = 1 THEN "WETH" ELSE "ETH"
    /\ toToken = "USDC"
    /\ amount = ""
    /\ slippage = "0.5"
    /\ quote = NoQuote
    /\ status = NoStatus
    /\ timers = <<>>
    /\ writeContractCalls = 0
    /\ calls = [c \in Calls |-> IdleCall]
    /\ pool = {}
    /\ included = <<>>
    /\ tokenBalance = 0
    /\ transferReverts = FALSE
    /\ xfers = [t \in Transfers |-> IdleTransfer]
    /\ latestBlock = 0
    /\ receiptBlock = 0
    /\ nodeUp = TRUE
    /\ confirmations = 0
    /\ intervalOn = FALSE
    /\ poll = IdlePoll
    /\ failedPolls = 0
    /\ watchError = FALSE
    /\ retry = IdleRetry
    /\ race = IdleRace
    /\ gas = IdleGas
    /\ cache = Undefined
    /\ chainBalance = 0
    /\ fetching = FALSE
    /\ writes = [w \in Writes |-> IdleWrite]
    /\ erc20 = IdleErc20
    /\ breaker = NewBreaker
    /\ user = "null"
    /\ isAuthenticated = FALSE
    /\ updates = <<>>
    /\ lastCall = "none"
    /\ tokenURI = ""
    /\ metadata = "null"
    /\ loadingMetadata = FALSE
    /\ fetches = <<>>
    /\ address = "undefined"
    /\ personalMessage = "Bienvenido"
    /\ personalSignature = 0
    /\ personalVerified = "null"
    /\ typedDataSignature = 0
    /\ typedDataVerified = "null"
    /\ loading = FALSE
    /\ error = ""
    /\ handler = IdleHandler
    /\ signed = 0
    /\ verifyResults = [s \in Signatures |-> "none"]
    /\ lastHandlerCall = [name |-> "none", hadAddress |-> FALSE]

SpecSwap == InitSwap /\ [][NextSwap]_vars

InitNonce ==
    /\ variant = 1
    /\ isConnected = FALSE
    /\ fromToken = "WETH"
    /\ toToken = "USDC"
    /\ amount = ""
    /\ slippage = "0.5"
    /\ quote = NoQuote
    /\ status = NoStatus
    /\ timers = <<>>
    /\ writeContractCalls = 0
    /\ calls = [c \in Calls |-> IdleCall]
    /\ pool = {}
    /\ included = <<>>
    /\ tokenBalance = 0
    /\ transferReverts = FALSE
    /\ xfers = [t \in Transfers |-> IdleTransfer]
    /\ latestBlock = 0
    /\ receiptBlock = 0
    /\ nodeUp = TRUE
    /\ confirmations = 0
    /\ intervalOn = FALSE
    /\ poll = IdlePoll
    /\ failedPolls = 0
    /\ watchError = FALSE
    /\ retry = IdleRetry
    /\ race = IdleRace
    /\ gas = IdleGas
    /\ cache = Undefined
    /\ chainBalance = 0
    /\ fetching = FALSE
    /\ writes = [w \in Writes |-> IdleWrite]
    /\ erc20 = IdleErc20
    /\ breaker = NewBreaker
    /\ user = "null"
    /\ isAuthenticated = FALSE
    /\ updates = <<>>
    /\ lastCall = "none"
    /\ tokenURI = ""
    /\ metadata = "null"
    /\ loadingMetadata = FALSE
    /\ fetches = <<>>
    /\ address = "undefined"
    /\ personalMessage = "Bienvenido"
    /\ personalSignature = 0
    /\ personalVerified = "null"
    /\ typedDataSignature = 0
    /\ typedDataVerified = "null"
    /\ loading = FALSE
    /\ error = ""
    /\ handler = IdleHandler
    /\ signed = 0
    /\ verifyResults = [s \in Signatures |-> "none"]
    /\ lastHandlerCall = [name |-> "none", hadAddress |-> FALSE]

SpecNonce == InitNonce /\ [][NextNonce]_vars

InitValidate ==
    /\ variant = 1
    /\ isConnected = FALSE
    /\ fromToken = "WETH"
    /\ toToken = "USDC"
    /\ amount = ""
    /\ slippage = "0.5"
    /\ quote = NoQuote
    /\ status = NoStatus
    /\ timers = <<>>
    /\ writeContractCalls = 0
    /\ calls = [c \in Calls |-> IdleCall]
    /\ pool = {}
    /\ included = <<>>
    /\ tokenBalance \in 0..MaxAmount
    /\ transferReverts \in BOOLEAN
    /\ xfers = [t \in Transfers |-> IdleTransfer]
    /\ latestBlock = 0
    /\ receiptBlock = 0
    /\ nodeUp = TRUE
    /\ confirmations = 0
    /\ intervalOn = FALSE
    /\ poll = IdlePoll
    /\ failedPolls = 0
    /\ watchError = FALSE
    /\ retry = IdleRetry
    /\ race = IdleRace
    /\ gas = IdleGas
    /\ cache = Undefined
    /\ chainBalance = 0
    /\ fetching = FALSE
    /\ writes = [w \in Writes |-> IdleWrite]
    /\ erc20 = IdleErc20
    /\ breaker = NewBreaker
    /\ user = "null"
    /\ isAuthenticated = FALSE
    /\ updates = <<>>
    /\ lastCall = "none"
    /\ tokenURI = ""
    /\ metadata = "null"
    /\ loadingMetadata = FALSE
    /\ fetches = <<>>
    /\ address = "undefined"
    /\ personalMessage = "Bienvenido"
    /\ personalSignature = 0
    /\ personalVerified = "null"
    /\ typedDataSignature = 0
    /\ typedDataVerified = "null"
    /\ loading = FALSE
    /\ error = ""
    /\ handler = IdleHandler
    /\ signed = 0
    /\ verifyResults = [s \in Signatures |-> "none"]
    /\ lastHandlerCall = [name |-> "none", hadAddress |-> FALSE]

SpecValidate == InitValidate /\ [][NextValidate]_vars

InitMonitor ==
    /\ variant = 1
    /\ isConnected = FALSE
    /\ fromToken = "WETH"
    /\ toToken = "USDC"
    /\ amount = ""
    /\ slippage = "0.5"
    /\ quote = NoQuote
    /\ status = NoStatus
    /\ timers = <<>>
    /\ writeContractCalls = 0
    /\ calls = [c \in Calls |-> IdleCall]
    /\ pool = {}
    /\ included = <<>>
    /\ tokenBalance = 0
    /\ transferReverts = FALSE
    /\ xfers = [t \in Transfers |-> IdleTransfer]
    /\ latestBlock = 0
    /\ receiptBlock = 0
    /\ nodeUp = TRUE
    /\ confirmations = 0
    /\ intervalOn = FALSE
    /\ poll = IdlePoll
    /\ failedPolls = 0
    /\ watchError = FALSE
    /\ retry = IdleRetry
    /\ race = IdleRace
    /\ gas = IdleGas
    /\ cache = Undefined
    /\ chainBalance = 0
    /\ fetching = FALSE
    /\ writes = [w \in Writes |-> IdleWrite]
    /\ erc20 = IdleErc20
    /\ breaker = NewBreaker
    /\ user = "null"
    /\ isAuthenticated = FALSE
    /\ updates = <<>>
    /\ lastCall = "none"
    /\ tokenURI = ""
    /\ metadata = "null"
    /\ loadingMetadata = FALSE
    /\ fetches = <<>>
    /\ address = "undefined"
    /\ personalMessage = "Bienvenido"
    /\ personalSignature = 0
    /\ personalVerified = "null"
    /\ typedDataSignature = 0
    /\ typedDataVerified = "null"
    /\ loading = FALSE
    /\ error = ""
    /\ handler = IdleHandler
    /\ signed = 0
    /\ verifyResults = [s \in Signatures |-> "none"]
    /\ lastHandlerCall = [name |-> "none", hadAddress |-> FALSE]

SpecMonitor == InitMonitor /\ [][NextMonitor]_vars

\* setInterval keeps firing while the component is mounted, and every request to
\* the node ends, with an answer or with an error.
SpecMonitorFair ==
    /\ InitMonitor
    /\ [][NextMonitor]_vars
    /\ WF_vars(Tick)
    /\ WF_vars(ReceiptReturns)
    /\ WF_vars(BlockNumberReturns)

InitRetry ==
    /\ variant = 1
    /\ isConnected = FALSE
    /\ fromToken = "WETH"
    /\ toToken = "USDC"
    /\ amount = ""
    /\ slippage = "0.5"
    /\ quote = NoQuote
    /\ status = NoStatus
    /\ timers = <<>>
    /\ writeContractCalls = 0
    /\ calls = [c \in Calls |-> IdleCall]
    /\ pool = {}
    /\ included = <<>>
    /\ tokenBalance = 0
    /\ transferReverts = FALSE
    /\ xfers = [t \in Transfers |-> IdleTransfer]
    /\ latestBlock = 0
    /\ receiptBlock = 0
    /\ nodeUp = TRUE
    /\ confirmations = 0
    /\ intervalOn = FALSE
    /\ poll = IdlePoll
    /\ failedPolls = 0
    /\ watchError = FALSE
    /\ retry = IdleRetry
    /\ race = IdleRace
    /\ gas = IdleGas
    /\ cache = Undefined
    /\ chainBalance = 0
    /\ fetching = FALSE
    /\ writes = [w \in Writes |-> IdleWrite]
    /\ erc20 = IdleErc20
    /\ breaker = NewBreaker
    /\ user = "null"
    /\ isAuthenticated = FALSE
    /\ updates = <<>>
    /\ lastCall = "none"
    /\ tokenURI = ""
    /\ metadata = "null"
    /\ loadingMetadata = FALSE
    /\ fetches = <<>>
    /\ address = "undefined"
    /\ personalMessage = "Bienvenido"
    /\ personalSignature = 0
    /\ personalVerified = "null"
    /\ typedDataSignature = 0
    /\ typedDataVerified = "null"
    /\ loading = FALSE
    /\ error = ""
    /\ handler = IdleHandler
    /\ signed = 0
    /\ verifyResults = [s \in Signatures |-> "none"]
    /\ lastHandlerCall = [name |-> "none", hadAddress |-> FALSE]

SpecRetry == InitRetry /\ [][NextRetry]_vars

\* Every fn() call settles and every sleep ends.
SpecRetryFair ==
    /\ InitRetry
    /\ [][NextRetry]_vars
    /\ WF_vars(FnResolves \/ \E e \in Errors : FnRejects(e))
    /\ WF_vars(DelayElapses)

InitTimeout ==
    /\ variant = 1
    /\ isConnected = FALSE
    /\ fromToken = "WETH"
    /\ toToken = "USDC"
    /\ amount = ""
    /\ slippage = "0.5"
    /\ quote = NoQuote
    /\ status = NoStatus
    /\ timers = <<>>
    /\ writeContractCalls = 0
    /\ calls = [c \in Calls |-> IdleCall]
    /\ pool = {}
    /\ included = <<>>
    /\ tokenBalance = 0
    /\ transferReverts = FALSE
    /\ xfers = [t \in Transfers |-> IdleTransfer]
    /\ latestBlock = 0
    /\ receiptBlock = 0
    /\ nodeUp = TRUE
    /\ confirmations = 0
    /\ intervalOn = FALSE
    /\ poll = IdlePoll
    /\ failedPolls = 0
    /\ watchError = FALSE
    /\ retry = IdleRetry
    /\ race = IdleRace
    /\ gas = IdleGas
    /\ cache = Undefined
    /\ chainBalance = 0
    /\ fetching = FALSE
    /\ writes = [w \in Writes |-> IdleWrite]
    /\ erc20 = IdleErc20
    /\ breaker = NewBreaker
    /\ user = "null"
    /\ isAuthenticated = FALSE
    /\ updates = <<>>
    /\ lastCall = "none"
    /\ tokenURI = ""
    /\ metadata = "null"
    /\ loadingMetadata = FALSE
    /\ fetches = <<>>
    /\ address = "undefined"
    /\ personalMessage = "Bienvenido"
    /\ personalSignature = 0
    /\ personalVerified = "null"
    /\ typedDataSignature = 0
    /\ typedDataVerified = "null"
    /\ loading = FALSE
    /\ error = ""
    /\ handler = IdleHandler
    /\ signed = 0
    /\ verifyResults = [s \in Signatures |-> "none"]
    /\ lastHandlerCall = [name |-> "none", hadAddress |-> FALSE]

SpecTimeout == InitTimeout /\ [][NextTimeout]_vars

InitGas ==
    /\ variant = 1
    /\ isConnected = FALSE
    /\ fromToken = "WETH"
    /\ toToken = "USDC"
    /\ amount = ""
    /\ slippage = "0.5"
    /\ quote = NoQuote
    /\ status = NoStatus
    /\ timers = <<>>
    /\ writeContractCalls = 0
    /\ calls = [c \in Calls |-> IdleCall]
    /\ pool = {}
    /\ included = <<>>
    /\ tokenBalance = 0
    /\ transferReverts = FALSE
    /\ xfers = [t \in Transfers |-> IdleTransfer]
    /\ latestBlock = 0
    /\ receiptBlock = 0
    /\ nodeUp = TRUE
    /\ confirmations = 0
    /\ intervalOn = FALSE
    /\ poll = IdlePoll
    /\ failedPolls = 0
    /\ watchError = FALSE
    /\ retry = IdleRetry
    /\ race = IdleRace
    /\ gas = IdleGas
    /\ cache = Undefined
    /\ chainBalance = 0
    /\ fetching = FALSE
    /\ writes = [w \in Writes |-> IdleWrite]
    /\ erc20 = IdleErc20
    /\ breaker = NewBreaker
    /\ user = "null"
    /\ isAuthenticated = FALSE
    /\ updates = <<>>
    /\ lastCall = "none"
    /\ tokenURI = ""
    /\ metadata = "null"
    /\ loadingMetadata = FALSE
    /\ fetches = <<>>
    /\ address = "undefined"
    /\ personalMessage = "Bienvenido"
    /\ personalSignature = 0
    /\ personalVerified = "null"
    /\ typedDataSignature = 0
    /\ typedDataVerified = "null"
    /\ loading = FALSE
    /\ error = ""
    /\ handler = IdleHandler
    /\ signed = 0
    /\ verifyResults = [s \in Signatures |-> "none"]
    /\ lastHandlerCall = [name |-> "none", hadAddress |-> FALSE]

SpecGas == InitGas /\ [][NextGas]_vars

InitOptimistic ==
    /\ variant = 1
    /\ isConnected = FALSE
    /\ fromToken = "WETH"
    /\ toToken = "USDC"
    /\ amount = ""
    /\ slippage = "0.5"
    /\ quote = NoQuote
    /\ status = NoStatus
    /\ timers = <<>>
    /\ writeContractCalls = 0
    /\ calls = [c \in Calls |-> IdleCall]
    /\ pool = {}
    /\ included = <<>>
    /\ tokenBalance = 0
    /\ transferReverts = FALSE
    /\ xfers = [t \in Transfers |-> IdleTransfer]
    /\ latestBlock = 0
    /\ receiptBlock = 0
    /\ nodeUp = TRUE
    /\ confirmations = 0
    /\ intervalOn = FALSE
    /\ poll = IdlePoll
    /\ failedPolls = 0
    /\ watchError = FALSE
    /\ retry = IdleRetry
    /\ race = IdleRace
    /\ gas = IdleGas
    /\ cache = Undefined
    /\ chainBalance \in 0..MaxBalance
    /\ fetching = TRUE
    /\ writes = [w \in Writes |-> IdleWrite]
    /\ erc20 = IdleErc20
    /\ breaker = NewBreaker
    /\ user = "null"
    /\ isAuthenticated = FALSE
    /\ updates = <<>>
    /\ lastCall = "none"
    /\ tokenURI = ""
    /\ metadata = "null"
    /\ loadingMetadata = FALSE
    /\ fetches = <<>>
    /\ address = "undefined"
    /\ personalMessage = "Bienvenido"
    /\ personalSignature = 0
    /\ personalVerified = "null"
    /\ typedDataSignature = 0
    /\ typedDataVerified = "null"
    /\ loading = FALSE
    /\ error = ""
    /\ handler = IdleHandler
    /\ signed = 0
    /\ verifyResults = [s \in Signatures |-> "none"]
    /\ lastHandlerCall = [name |-> "none", hadAddress |-> FALSE]

SpecOptimistic == InitOptimistic /\ [][NextOptimistic]_vars

InitErc20 ==
    /\ variant = 1
    /\ isConnected = FALSE
    /\ fromToken = "WETH"
    /\ toToken = "USDC"
    /\ amount = ""
    /\ slippage = "0.5"
    /\ quote = NoQuote
    /\ status = NoStatus
    /\ timers = <<>>
    /\ writeContractCalls = 0
    /\ calls = [c \in Calls |-> IdleCall]
    /\ pool = {}
    /\ included = <<>>
    /\ tokenBalance = 0
    /\ transferReverts = FALSE
    /\ xfers = [t \in Transfers |-> IdleTransfer]
    /\ latestBlock = 0
    /\ receiptBlock = 0
    /\ nodeUp = TRUE
    /\ confirmations = 0
    /\ intervalOn = FALSE
    /\ poll = IdlePoll
    /\ failedPolls = 0
    /\ watchError = FALSE
    /\ retry = IdleRetry
    /\ race = IdleRace
    /\ gas = IdleGas
    /\ cache = Undefined
    /\ chainBalance = 0
    /\ fetching = FALSE
    /\ writes = [w \in Writes |-> IdleWrite]
    /\ erc20 \in {Erc20Start(a, b) : a \in Allowances, b \in Allowances}
    /\ breaker = NewBreaker
    /\ user = "null"
    /\ isAuthenticated = FALSE
    /\ updates = <<>>
    /\ lastCall = "none"
    /\ tokenURI = ""
    /\ metadata = "null"
    /\ loadingMetadata = FALSE
    /\ fetches = <<>>
    /\ address = "undefined"
    /\ personalMessage = "Bienvenido"
    /\ personalSignature = 0
    /\ personalVerified = "null"
    /\ typedDataSignature = 0
    /\ typedDataVerified = "null"
    /\ loading = FALSE
    /\ error = ""
    /\ handler = IdleHandler
    /\ signed = 0
    /\ verifyResults = [s \in Signatures |-> "none"]
    /\ lastHandlerCall = [name |-> "none", hadAddress |-> FALSE]

SpecErc20 == InitErc20 /\ [][NextErc20]_vars

InitBreaker ==
    /\ variant = 1
    /\ isConnected = FALSE
    /\ fromToken = "WETH"
    /\ toToken = "USDC"
    /\ amount = ""
    /\ slippage = "0.5"
    /\ quote = NoQuote
    /\ status = NoStatus
    /\ timers = <<>>
    /\ writeContractCalls = 0
    /\ calls = [c \in Calls |-> IdleCall]
    /\ pool = {}
    /\ included = <<>>
    /\ tokenBalance = 0
    /\ transferReverts = FALSE
    /\ xfers = [t \in Transfers |-> IdleTransfer]
    /\ latestBlock = 0
    /\ receiptBlock = 0
    /\ nodeUp = TRUE
    /\ confirmations = 0
    /\ intervalOn = FALSE
    /\ poll = IdlePoll
    /\ failedPolls = 0
    /\ watchError = FALSE
    /\ retry = IdleRetry
    /\ race = IdleRace
    /\ gas = IdleGas
    /\ cache = Undefined
    /\ chainBalance = 0
    /\ fetching = FALSE
    /\ writes = [w \in Writes |-> IdleWrite]
    /\ erc20 = IdleErc20
    /\ breaker = NewBreaker
    /\ user = "null"
    /\ isAuthenticated = FALSE
    /\ updates = <<>>
    /\ lastCall = "none"
    /\ tokenURI = ""
    /\ metadata = "null"
    /\ loadingMetadata = FALSE
    /\ fetches = <<>>
    /\ address = "undefined"
    /\ personalMessage = "Bienvenido"
    /\ personalSignature = 0
    /\ personalVerified = "null"
    /\ typedDataSignature = 0
    /\ typedDataVerified = "null"
    /\ loading = FALSE
    /\ error = ""
    /\ handler = IdleHandler
    /\ signed = 0
    /\ verifyResults = [s \in Signatures |-> "none"]
    /\ lastHandlerCall = [name |-> "none", hadAddress |-> FALSE]

SpecBreaker == InitBreaker /\ [][NextBreaker]_vars

InitFarcaster ==
    /\ variant = 1
    /\ isConnected = FALSE
    /\ fromToken = "WETH"
    /\ toToken = "USDC"
    /\ amount = ""
    /\ slippage = "0.5"
    /\ quote = NoQuote
    /\ status = NoStatus
    /\ timers = <<>>
    /\ writeContractCalls = 0
    /\ calls = [c \in Calls |-> IdleCall]
    /\ pool = {}
    /\ included = <<>>
    /\ tokenBalance = 0
    /\ transferReverts = FALSE
    /\ xfers = [t \in Transfers |-> IdleTransfer]
    /\ latestBlock = 0
    /\ receiptBlock = 0
    /\ nodeUp = TRUE
    /\ confirmations = 0
    /\ intervalOn = FALSE
    /\ poll = IdlePoll
    /\ failedPolls = 0
    /\ watchError = FALSE
    /\ retry = IdleRetry
    /\ race = IdleRace
    /\ gas = IdleGas
    /\ cache = Undefined
    /\ chainBalance = 0
    /\ fetching = FALSE
    /\ writes = [w \in Writes |-> IdleWrite]
    /\ erc20 = IdleErc20
    /\ breaker = NewBreaker
    /\ user = "null"
    /\ isAuthenticated = FALSE
    /\ updates = <<>>
    /\ lastCall = "none"
    /\ tokenURI = ""
    /\ metadata = "null"
    /\ loadingMetadata = FALSE
    /\ fetches = <<>>
    /\ address = "undefined"
    /\ personalMessage = "Bienvenido"
    /\ personalSignature = 0
    /\ personalVerified = "null"
    /\ typedDataSignature = 0
    /\ typedDataVerified = "null"
    /\ loading = FALSE
    /\ error = ""
    /\ handler = IdleHandler
    /\ signed = 0
    /\ verifyResults = [s \in Signatures |-> "none"]
    /\ lastHandlerCall = [name |-> "none", hadAddress |-> FALSE]

SpecFarcaster == InitFarcaster /\ [][NextFarcaster]_vars

InitNft ==
    /\ variant = 1
    /\ isConnected = FALSE
    /\ fromToken = "WETH"
    /\ toToken = "USDC"
    /\ amount = ""
    /\ slippage = "0.5"
    /\ quote = NoQuote
    /\ status = NoStatus
    /\ timers = <<>>
    /\ writeContractCalls = 0
    /\ calls = [c \in Calls |-> IdleCall]
    /\ pool = {}
    /\ included = <<>>
    /\ tokenBalance = 0
    /\ transferReverts = FALSE
    /\ xfers = [t \in Transfers |-> IdleTransfer]
    /\ latestBlock = 0
    /\ receiptBlock = 0
    /\ nodeUp = TRUE
    /\ confirmations = 0
    /\ intervalOn = FALSE
    /\ poll = IdlePoll
    /\ failedPolls = 0
    /\ watchError = FALSE
    /\ retry = IdleRetry
    /\ race = IdleRace
    /\ gas = IdleGas
    /\ cache = Undefined
    /\ chainBalance = 0
    /\ fetching = FALSE
    /\ writes = [w \in Writes |-> IdleWrite]
    /\ erc20 = IdleErc20
    /\ breaker = NewBreaker
    /\ user = "null"
    /\ isAuthenticated = FALSE
    /\ updates = <<>>
    /\ lastCall = "none"
    /\ tokenURI = ""
    /\ metadata = "null"
    /\ loadingMetadata = FALSE
    /\ fetches = <<>>
    /\ address = "undefined"
    /\ personalMessage = "Bienvenido"
    /\ personalSignature = 0
    /\ personalVerified = "null"
    /\ typedDataSignature = 0
    /\ typedDataVerified = "null"
    /\ loading = FALSE
    /\ error = ""
    /\ handler = IdleHandler
    /\ signed = 0
    /\ verifyResults = [s \in Signatures |-> "none"]
    /\ lastHandlerCall = [name |-> "none", hadAddress |-> FALSE]

SpecNft == InitNft /\ [][NextNft]_vars

InitSigning ==
    /\ variant = 1
    /\ isConnected = FALSE
    /\ fromToken = "WETH"
    /\ toToken = "USDC"
    /\ amount = ""
    /\ slippage = "0.5"
    /\ quote = NoQuote
    /\ status = NoStatus
    /\ timers = <<>>
    /\ writeContractCalls = 0
    /\ calls = [c \in Calls |-> IdleCall]
    /\ pool = {}
    /\ included = <<>>
    /\ tokenBalance = 0
    /\ transferReverts = FALSE
    /\ xfers = [t \in Transfers |-> IdleTransfer]
    /\ latestBlock = 0
    /\ receiptBlock = 0
    /\ nodeUp = TRUE
    /\ confirmations = 0
    /\ intervalOn = FALSE
    /\ poll = IdlePoll
    /\ failedPolls = 0
    /\ watchError = FALSE
    /\ retry = IdleRetry
    /\ race = IdleRace
    /\ gas = IdleGas
    /\ cache = Undefined
    /\ chainBalance = 0
    /\ fetching = FALSE
    /\ writes = [w \in Writes |-> IdleWrite]
    /\ erc20 = IdleErc20
    /\ breaker = NewBreaker
    /\ user = "null"
    /\ isAuthenticated = FALSE
    /\ updates = <<>>
    /\ lastCall = "none"
    /\ tokenURI = ""
    /\ metadata = "null"
    /\ loadingMetadata = FALSE
    /\ fetches = <<>>
    /\ address = "undefined"
    /\ personalMessage = "Bienvenido"
    /\ personalSignature = 0
    /\ personalVerified = "null"
    /\ typedDataSignature = 0
    /\ typedDataVerified = "null"
    /\ loading = FALSE
    /\ error = ""
    /\ handler = IdleHandler
    /\ signed = 0
    /\ verifyResults = [s \in Signatures |-> "none"]
    /\ lastHandlerCall = [name |-> "none", hadAddress |-> FALSE]

SpecSigning == InitSigning /\ [][NextSigning]_vars

\* The wallet answers every signing request and every verification ends.
SpecSigningFair ==
    /\ InitSigning
    /\ [][NextSigning]_vars
    /\ WF_vars(WalletSigns \/ WalletRejects)
    /\ WF_vars(VerifyThrows \/ \E isValid \in {"true", "false"} : VerifyReturns(isValid))

----------------------------------------------------------------------------
\* C2: two concurrent submit calls for one account, with nonces assigned
\* automatically, never hold the same nonce: of two calls that have both read
\* their nonce and not yet sent, the nonces differ.
C2_ConcurrentSubmitsDistinctNonces ==
    \A c \in Calls, d \in Calls :
        (/\ c # d
         /\ calls[c].pc = "counted"
         /\ calls[d].pc = "counted"
         /\ calls[c].from = calls[d].from)
        => calls[c].nonce # calls[d].nonce

C9_OnlyExplicitReplacement ==
    \A p \in Calls :
        calls[p].pc = "replaced"
        => /\ calls[calls[p].by].kind \in {"replace", "cancel"}
           /\ calls[calls[p].by].fee > calls[p].fee

\* C3: a write whose pre-broadcast step failed (address validation, balance check,
\* simulation, or the node not answering the check) is never sent.
C3_NoSendAfterFailedValidation ==
    \A t \in Transfers : xfers[t].sent => xfers[t].failed = "none"

\* One attempt was stopped by a failed simulation and was not sent, while another
\* attempt passed every check and was sent.
C3_Witness ==
    \E t \in Transfers, u \in Transfers :
        /\ xfers[t].pc = "aborted"
        /\ xfers[t].failed = "simulation"
        /\ ~xfers[t].sent
        /\ xfers[u].pc = "sent"

\* C10: the monitor never silently stops tracking: once a poll of a mounted
\* monitor has failed, eventually a poll succeeds again, or an error is
\* surfaced, or the caller unmounts the monitor.
C10_FailureRecoveredOrSurfaced ==
    [](failedPolls > 0 => <>(failedPolls = 0 \/ watchError \/ ~intervalOn))

\* C4: swaps are disabled: whatever the user does on the swap page (amount,
\* slippage, token selection, flipping the pair, clicking the swap button any
\* number of times), writeContract is never invoked.
C4_NoTransactionSubmitted == writeContractCalls = 0

\* The swap button of either page was clicked with a valid amount: page 1 shows
\* the warning, page 2 has reached the delayed success message.
C4_Witness ==
    /\ status.type \in {"warning", "success"}
    /\ ~AmountInvalid(amount)
    /\ fromToken # (IF variant = 1 THEN "WETH" ELSE "ETH")

\* C11: a call that failed with a revert of the simulation or with an encoding
\* error is never attempted again by the retry helper: no attempt is started
\* after an attempt that ended with one of these errors.
C11_DeterministicFailureNotRetried ==
    \A k \in 1..Len(retry.attempts) :
        retry.attempts[k] \in DeterministicErrors => retry.started = k

\* C13: a request wrapped with a timeout ends with the timeout error whenever
\* the deadline passed before the node answered, whatever the node answers
\* later; the timeout error is none of the errors the node reports, which reach
\* the caller unchanged when the node answers first; and timing out leaves the
\* request itself as it is, to be answered (a submit: accepted) by the node.
C13_TimeoutWhenNoResponseByDeadline ==
    /\ race.first = "timer" => race.result = TimedOut
    /\ race.first = "promise" => (race.result = race.promise /\ race.result # TimedOut)
    /\ TimedOut \notin NodeOutcomes
    /\ race.result = TimedOut => race.timer = "fired"
    /\ (race.pc = "racing" /\ race.first = "none") => race.promise = "pending"

\* A submit timed out locally and the node accepted the transaction afterwards.
C13_Witness ==
    /\ race.op = "submit"
    /\ race.result = TimedOut
    /\ race.first = "timer"
    /\ race.promise = "value"

\* C20: the gas limit is the estimate times 120 divided by 100 in integer
\* arithmetic (the floor of 1.2 times the estimate, an unsigned integer), and
\* it is never below the estimate.
C20_GasLimitNotBelowEstimate ==
    gas.hasLimit =>
        /\ gas.gasLimit \in Nat
        /\ gas.gasLimit >= gas.gasEstimate
        /\ 100 * gas.gasLimit <= 120 * gas.gasEstimate
        /\ 120 * gas.gasEstimate < 100 * (gas.gasLimit + 1)

\* An estimate whose buffered value is not an integer: 1.2 * 7 = 8.4 gives 8.
C20_Witness ==
    /\ gas.hasLimit
    /\ gas.gasEstimate = 7
    /\ gas.gasLimit = 8

\* C30: on the swap page fromToken and toToken are different tokens, whatever
\* the user selects in the two lists and however often the pair is flipped.
C30_FromAndToTokensDiffer == fromToken # toToken

\* C27: the delayed success message of a handleSwap call never replaces a status
\* set by a later handleSwap call.  The status "info" is the one set by the most
\* recent call; while two timeouts are pending, the most recent call is later
\* than the call whose timeout fires next.
C27_LaterStatusNotOverwritten ==
    [][(status.type = "info" /\ Len(timers) >= 2) => status'.type # "success"]_vars

C21_RollbackRestoresSnapshot ==
    [][\A w \in Writes :
          (writes[w].pc = "pending" /\ writes'[w].pc = "failed")
          => cache' = writes[w].previousBalance]_vars

\* C22: when Alice changes Bob's allowance from A to B with approve(Bob, 0)
\* followed by approve(Bob, B), the total Bob transfers with transferFrom stays
\* below A + B, however his calls interleave with her two transactions.
C22_SpentBelowSumOfAllowances == erc20.spent < erc20.old + erc20.new

\* C24: after three consecutive failed executions, no execute call made within
\* the next 60 seconds invokes fn, however the calls overlap; and a successful
\* execution leaves the failure count at zero.
C24_OpenAfterThreeFailures ==
    /\ breaker.last = "started" =>
          ~(breaker.tripped /\ breaker.now < breaker.trippedAt + 60000)
    /\ breaker.last = "success" => breaker.failures = 0

\* C25: in every render of FarcasterProvider isAuthenticated is true exactly
\* when user is not null, whatever login and logout calls were made; and once
\* the updates of a final logout call are applied, the context is in its
\* initial state (user null, isAuthenticated false).
C25_AuthenticatedIffUser ==
    /\ isAuthenticated <=> (user # "null")
    /\ (lastCall = "logout" /\ updates = <<>>) =>
          (user = "null" /\ ~isAuthenticated)

\* The updates of a logout call, the latest call made, have been applied.
C25_Witness ==
    /\ lastCall = "logout"
    /\ updates = <<>>
    /\ user = "null"
    /\ ~isAuthenticated

\* C26: once no metadata fetch is in flight, the metadata shown is the one
\* fetched for the current tokenURI, or null (also whenever tokenURI is empty);
\* and while a fetch is in flight loadingMetadata is true.
C26_MetadataOfCurrentTokenURI ==
    /\ fetches = <<>> =>
          /\ metadata \in {"null", tokenURI}
          /\ tokenURI = "" => metadata = "null"
    /\ fetches # <<>> => loadingMetadata

\* C28: the banner 'Verificacion fallida' is shown under a signature only if
\* verifyMessage returned false for that signature, and the banner 'verificada'
\* only if it returned true for it.
C28_BannerMatchesVerification ==
    /\ ShowsVerificationFailed => verifyResults[personalSignature] = "false"
    /\ ShowsVerified => verifyResults[personalSignature] = "true"

\* C29: every signing handler started with an address sets loading back to
\* false in the end, whether the wallet signs or rejects; loading is true only
\* while a handler is in flight; and a handler called without an address
\* changes no state of the page.
C29_LoadingAlwaysReset ==
    /\ [](loading => handler.pc # "idle")
    /\ [][(lastHandlerCall' # lastHandlerCall /\ ~lastHandlerCall'.hadAddress)
            => UNCHANGED pageVars]_vars
    /\ (handler.pc # "idle") ~> (handler.pc = "idle" /\ ~loading)

\* After a signature that was verified, a later attempt was rejected by the
\* wallet: the error is shown and loading is false again.
C29_Witness ==
    /\ personalSignature # 0
    /\ verifyResults[personalSignature] = "true"
    /\ error = "User rejected the request."
    /\ handler.pc = "idle"
    /\ ~loading
    /\ lastHandlerCall.hadAddress

=============================================================================
